---- MODULE Spec2Model ----
(***************************************************************************)
(* Model of quantum_simulator/app.py: the Flask gateway with its rate      *)
(* limiter (rate_limit), question validator (validate_question), summary   *)
(* step (get_simulation_summary), the question handler (ask_quantum_ai),   *)
(* the paginated read (get_quantum_data) and the probe (health_check).     *)
(*                                                                         *)
(* Time is time.time() in whole seconds.  Strings the code inspects are    *)
(* sequences of one-character strings; messages the code only passes on    *)
(* are TLA+ strings.                                                       *)
(***************************************************************************)
EXTENDS Integers, Sequences, FiniteSets, TLC

(* ----------------------------- bounds ---------------------------------- *)
\* clock advances the model takes
MaxTicks == 1
\* questions a single-worker run receives
MaxRequests == 6
\* questions a threaded run receives
MaxThreadedRequests == 3
\* questions a run receives when every input of the model is tried
MaxHandlerRequests == 2
\* records of the large store used for the paginated read
BigStoreSize == 101
\* questions a run receives when the worker is taken to keep running
MaxLiveRequests == 2
\* questions and clock advances of a run of the rate limiter alone
MaxLimiterRequests == 7
MaxLimiterTicks == 2
\* questions and clock advances of a threaded run of the rate limiter alone
MaxBurstRequests == 6
MaxBurstTicks == 1

(* ------------------------- program constants --------------------------- *)
MAX_QUESTION_LENGTH == 1000
\* @rate_limit(max_requests=5, window_seconds=60) on /api/ask
max_requests == 5
window_seconds == 60
\* min(..., 100) in get_quantum_data
MaxPerPage == 100
\* request.args.get('per_page', 50, type=int)
DefaultPerPage == 50
\* get_simulation_summary(limit=5)
SummaryLimit == 5

Threads == {"t1", "t2"}
MainThread == "t1"
\* request.remote_addr
Identities == {"10.0.0.1", "10.0.0.2"}
\* how far time.time() moves between two events
TickSteps == {1, window_seconds - 1, window_seconds}

(* ------------------------------ strings -------------------------------- *)
Rep(c, n) == [i \in 1..n |-> c]

Whitespace == {" ", "\n", "\t"}

\* str.lower() on the characters of the model's alphabet
LowerChar(c) ==
    CASE c = "S" -> "s"
      [] c = "C" -> "c"
      [] c = "D" -> "d"
      [] c = "J" -> "j"
      [] c = "V" -> "v"
      [] OTHER -> c

lower(s) == [i \in 1..Len(s) |-> LowerChar(s[i])]

\* str.strip(): drop leading and trailing whitespace
strip(s) ==
    IF \A i \in 1..Len(s) : s[i] \in Whitespace THEN <<>>
    ELSE LET lo == CHOOSE i \in 1..Len(s) :
                      s[i] \notin Whitespace /\ \A j \in 1..(i - 1) : s[j] \in Whitespace
             hi == CHOOSE i \in 1..Len(s) :
                      s[i] \notin Whitespace /\ \A j \in (i + 1)..Len(s) : s[j] \in Whitespace
         IN  SubSeq(s, lo, hi)

\* keyword in text
Contains(text, keyword) ==
    \E i \in 1..(Len(text) - Len(keyword) + 1) :
        \A j \in 1..Len(keyword) : text[i + j - 1] = keyword[j]

suspicious_keywords ==
    { <<"<", "s", "c", "r", "i", "p", "t">>,
      <<"j", "a", "v", "a", "s", "c", "r", "i", "p", "t", ":">>,
      <<"d", "a", "t", "a", ":">>,
      <<"v", "b", "s", "c", "r", "i", "p", "t", ":">> }

(* --------------------------- JSON values ------------------------------- *)
\* a decoded JSON value: its Python type and, for text, its characters
PyStr(s) == [t |-> "str", v |-> s]
PyNone == [t |-> "none", v |-> <<>>]
PyInt(digits) == [t |-> "int", v |-> digits]
PyList(items) == [t |-> "list", v |-> items]

\* Python truth value: not x
Truthy(x) ==
    CASE x.t = "str" -> x.v # <<>>
      [] x.t = "none" -> FALSE
      [] x.t = "int" -> x.v # <<"0">>
      [] x.t = "list" -> x.v # <<>>

\* validate_question with the length taken before strip()
validate_question_raw_length(question) ==
    IF ~Truthy(question)
    THEN [raised |-> FALSE, ok |-> FALSE, reason |-> "No question provided", text |-> <<>>]
    ELSE IF question.t # "str"
    THEN [raised |-> TRUE, ok |-> FALSE, reason |-> "AttributeError", text |-> <<>>]
    ELSE LET q == strip(question.v) IN
         IF q = <<>>
         THEN [raised |-> FALSE, ok |-> FALSE, reason |-> "Empty question", text |-> <<>>]
         ELSE IF Len(question.v) > MAX_QUESTION_LENGTH
         THEN [raised |-> FALSE, ok |-> FALSE,
               reason |-> "Question too long (max 1000 characters)", text |-> <<>>]
         ELSE IF \E keyword \in suspicious_keywords : Contains(lower(q), keyword)
         THEN [raised |-> FALSE, ok |-> FALSE, reason |-> "Invalid question content",
               text |-> <<>>]
         ELSE [raised |-> FALSE, ok |-> TRUE, reason |-> "", text |-> q]

\* validate_question: [ok, result] as returned, or raised = TRUE when
\* question.strip() does not exist (AttributeError)
validate_question(question) ==
    IF ~Truthy(question)
    THEN [raised |-> FALSE, ok |-> FALSE, reason |-> "No question provided", text |-> <<>>]
    ELSE IF question.t # "str"
    THEN [raised |-> TRUE, ok |-> FALSE, reason |-> "AttributeError", text |-> <<>>]
    ELSE LET q == strip(question.v) IN
         IF q = <<>>
         THEN [raised |-> FALSE, ok |-> FALSE, reason |-> "Empty question", text |-> <<>>]
         ELSE IF Len(q) > MAX_QUESTION_LENGTH
         THEN [raised |-> FALSE, ok |-> FALSE,
               reason |-> "Question too long (max 1000 characters)", text |-> <<>>]
         ELSE IF \E keyword \in suspicious_keywords : Contains(lower(q), keyword)
         THEN [raised |-> FALSE, ok |-> FALSE, reason |-> "Invalid question content",
               text |-> <<>>]
         ELSE [raised |-> FALSE, ok |-> TRUE, reason |-> "", text |-> q]

(* ---------------------------- record store ------------------------------ *)
\* generate_data.sim_types, plus one algorithm a table may also hold
sim_types == <<"VQE", "QAOA", "Grover", "Shor", "QFT">>
OtherAlgorithm == "HHL"

\* one row of the simulations table; accuracy in hundredths, ids unique
Row(id, alg, acc, rt) ==
    [simulation_id |-> id, algorithm |-> alg, accuracy |-> acc, runtime_ms |-> rt]

\* n rows inserted in descending id order, algorithms taken in turn
MkStore(n) ==
    [i \in 1..n |-> Row(n - i + 1, sim_types[(i % 5) + 1], 70 + ((i * 13) % 30), 10 + i)]

SmallStore ==
    << Row(3, "VQE", 90, 40), Row(1, "QAOA", 80, 100), Row(2, "VQE", 71, 21),
       Row(4, "Shor", 80, 55) >>

\* six algorithms: one more group than the summary's limit
WideStore ==
    << Row(6, "VQE", 90, 40), Row(5, "QAOA", 80, 100), Row(4, "Grover", 75, 21),
       Row(3, "Shor", 80, 55), Row(2, "QFT", 99, 10), Row(1, OtherAlgorithm, 70, 300),
       Row(7, "QFT", 98, 13) >>

RECURSIVE SumOf(_, _)
SumOf(f, S) ==
    IF S = {} THEN 0
    ELSE LET x == CHOOSE y \in S : TRUE IN f[x] + SumOf(f, S \ {x})

\* ORDER BY simulation_id (ids are unique): the k-th row is the one with
\* k ids at or below its own
OrderById(rows) ==
    LET ranked == {<<Cardinality({j \in 1..Len(rows) :
                        rows[j].simulation_id <= rows[i].simulation_id}), i>> :
                    i \in 1..Len(rows)}
    IN  [k \in 1..Len(rows) |-> rows[(CHOOSE p \in ranked : p[1] = k)[2]]]

\* LIMIT ? OFFSET ? as SQLite applies them: a negative LIMIT is no limit,
\* a negative OFFSET is 0
LimitOffset(rows, limit, offset) ==
    LET off == IF offset < 0 THEN 0 ELSE offset
        last == IF limit < 0 THEN Len(rows)
                ELSE IF off + limit > Len(rows) THEN Len(rows) ELSE off + limit
    IN  IF off >= Len(rows) THEN <<>> ELSE SubSeq(rows, off + 1, last)

\* Python's a // b (floor), b # 0
FloorDiv(a, b) ==
    LET n == IF b < 0 THEN 0 - a ELSE a
        d == IF b < 0 THEN 0 - b ELSE b
    IN  IF n >= 0 THEN n \div d ELSE 0 - (((0 - n) + d - 1) \div d)

\* round(a / b) to the nearest integer, ties to even; b > 0, a >= 0
RoundDiv(a, b) ==
    LET q == a \div b
        r == a % b
    IN  IF 2 * r < b THEN q
        ELSE IF 2 * r > b THEN q + 1
        ELSE IF q % 2 = 0 THEN q ELSE q + 1

\* GROUP BY algorithm with AVG(accuracy), AVG(runtime_ms), COUNT(*)
GroupRows(rows) ==
    LET algs == {rows[i].algorithm : i \in 1..Len(rows)}
        acc == [i \in 1..Len(rows) |-> rows[i].accuracy]
        rt == [i \in 1..Len(rows) |-> rows[i].runtime_ms]
    IN  { LET members == {i \in 1..Len(rows) : rows[i].algorithm = a}
          IN  [algorithm |-> a,
               accuracy_sum |-> SumOf(acc, members),
               runtime_sum |-> SumOf(rt, members),
               simulation_count |-> Cardinality(members)] : a \in algs }

\* position of an algorithm name in the order that breaks ties
NameRank(a) ==
    CASE a = "Grover" -> 1 [] a = "HHL" -> 2 [] a = "QAOA" -> 3
      [] a = "QFT" -> 4 [] a = "Shor" -> 5 [] a = "VQE" -> 6

\* Before under ORDER BY avg_accuracy ASC
BeforeAscending(g, h, tie) ==
    LET l == g.accuracy_sum * h.simulation_count
        r == h.accuracy_sum * g.simulation_count
    IN  \/ l < r
        \/ /\ l = r
           /\ IF tie = "asc" THEN NameRank(g.algorithm) < NameRank(h.algorithm)
              ELSE NameRank(g.algorithm) > NameRank(h.algorithm)

\* g comes before h under ORDER BY avg_accuracy DESC; rows of equal mean
\* come out in the order the engine happens to produce (tie)
Before(g, h, tie) ==
    LET l == g.accuracy_sum * h.simulation_count
        r == h.accuracy_sum * g.simulation_count
    IN  \/ l > r
        \/ /\ l = r
           /\ IF tie = "asc" THEN NameRank(g.algorithm) < NameRank(h.algorithm)
              ELSE NameRank(g.algorithm) > NameRank(h.algorithm)

\* ORDER BY avg_accuracy DESC LIMIT limit
SummaryRows(rows, limit, tie) ==
    LET groups == GroupRows(rows)
        n == IF limit < 0 \/ limit > Cardinality(groups) THEN Cardinality(groups) ELSE limit
    IN  [k \in 1..n |->
            CHOOSE g \in groups :
                Cardinality({h \in groups : Before(h, g, tie)}) = k - 1]

NoDataSentence == "No quantum simulation data available yet."
UnableSentence == "Unable to retrieve simulation data."
SummaryHeader == "Recent quantum simulation performance:"

\* one rendered line: {avg_accuracy:.2f} in hundredths, {avg_runtime:.0f}, count
SummaryLine(g) ==
    [algorithm |-> g.algorithm,
     avg_accuracy |-> RoundDiv(g.accuracy_sum, g.simulation_count),
     avg_runtime |-> RoundDiv(g.runtime_sum, g.simulation_count),
     runs |-> g.simulation_count]

\* get_simulation_summary with the except branch returning an empty string
get_simulation_summary_blank(rows, limit, db_error, tie) ==
    IF db_error \/ rows = <<>>
    THEN [text |-> IF db_error THEN "" ELSE NoDataSentence, lines |-> <<>>]
    ELSE [text |-> SummaryHeader,
          lines |-> [k \in 1..Len(SummaryRows(rows, limit, tie)) |->
                        SummaryLine(SummaryRows(rows, limit, tie)[k])]]

\* get_simulation_summary(limit): the text handed to the prompt; db_error
\* is the store raising sqlite3.Error inside the with block
get_simulation_summary(rows, limit, db_error, tie) ==
    IF db_error
    THEN [text |-> UnableSentence, lines |-> <<>>]
    ELSE LET got == SummaryRows(rows, limit, tie) IN
         IF got = <<>>
         THEN [text |-> NoDataSentence, lines |-> <<>>]
         ELSE [text |-> SummaryHeader,
               lines |-> [k \in 1..Len(got) |-> SummaryLine(got[k])]]

(* ----------------------------- responses -------------------------------- *)
NoPagination == [page |-> 0, per_page |-> 0, total |-> 0, pages |-> 0]

\* a response: the status code and the members of its JSON body (keys)
NoResponse ==
    [status |-> 0, keys |-> {}, error |-> "", answer |-> "", data |-> <<>>,
     pagination |-> NoPagination, health |-> "", timestamp |-> 0]

ErrorResponse(message, code) ==
    [NoResponse EXCEPT !.status = code, !.keys = {"error"}, !.error = message]

RateLimitMessage == "Rate limit exceeded. Try again later."
InvalidJsonMessage == "Invalid JSON data"
BadAiResponseMessage == "Invalid response from AI service"
TimeoutMessage == "AI service is currently slow. Please try again."
UnavailableMessage == "AI service temporarily unavailable"
UnexpectedMessage == "An unexpected error occurred"
DatabaseMessage == "Database error occurred"

(* ------------------------------- inputs --------------------------------- *)
Chars(n) == Rep("x", n)

\* request bodies, by what request.json makes of them:
\*   malformed   a JSON content type whose body does not parse (BadRequest raised)
\*   not_json    no JSON content type (None, or UnsupportedMediaType raised)
\*   falsy       a JSON value Python takes as false: {}, [], 0, "", null
\*   non_object  a true JSON value without .get: [1], "x", 7
\*   no_question an object without the "question" member
\*   object      an object with the "question" member
Body(kind, question) == [kind |-> kind, question |-> question]

\* the bodies clients send, by name
RequestBody ==
    [ malformed |-> Body("malformed", PyNone),
      not_json |-> Body("not_json", PyNone),
      falsy |-> Body("falsy", PyNone),
      non_object |-> Body("non_object", PyNone),
      no_question |-> Body("no_question", PyNone),
      q_empty |-> Body("object", PyStr(<<>>)),
      q_blank |-> Body("object", PyStr(<<" ", "\n", " ">>)),
      q_null |-> Body("object", PyNone),
      q_zero |-> Body("object", PyInt(<<"0">>)),
      q_seven |-> Body("object", PyInt(<<"7">>)),
      q_list |-> Body("object", PyList(<<"x">>)),
      q_hi |-> Body("object", PyStr(<<"h", "i">>)),
      q_padded |-> Body("object", PyStr(<<" ", "h", " ", "i", "\n">>)),
      q_script |-> Body("object", PyStr(<<"a", "<", "S", "c", "r", "i", "p", "t", ">">>)),
      q_data |-> Body("object", PyStr(<<"D", "a", "t", "a", ":", "x">>)),
      q_max |-> Body("object", PyStr(Chars(MAX_QUESTION_LENGTH))),
      q_over |-> Body("object", PyStr(Chars(MAX_QUESTION_LENGTH + 1))),
      q_padded_max |-> Body("object", PyStr(<<" ">> \o Chars(MAX_QUESTION_LENGTH) \o <<" ">>)),
      q_over_data |-> Body("object",
            PyStr(Chars(MAX_QUESTION_LENGTH - 4) \o <<"d", "a", "t", "a", ":">>)) ]

Bodies == DOMAIN RequestBody

\* what requests.post / raise_for_status / response.json() come back with
Answers == {"Superposition is ...", ""}

UpstreamOutcomes ==
    { [kind |-> k, content |-> ""] :
        k \in {"timeout", "connection_error", "http_error", "not_json",
               "no_choices", "empty_choices", "not_a_container", "no_message"} }
    \cup { [kind |-> "completion", content |-> a] : a \in Answers }

NoOutcome == [kind |-> "none", content |-> ""]

\* what the installed libraries do where their releases differ:
\*   flask_raises     request.json without a JSON content type raises (Flask >= 2.1)
\*   requests_wraps   response.json() raises requests' JSONDecodeError, a
\*                    RequestException (requests >= 2.27)
Builds == [flask_raises : BOOLEAN, requests_wraps : BOOLEAN]

\* texts of sqlite3 errors
ErrorTexts == {"unable to open database file", "no such table: simulations"}

\* request.args.get(name, default, type=int): the default when the argument
\* is missing or is no integer
Arg(n) == [given |-> TRUE, value |-> n]
NoArg == [given |-> FALSE, value |-> 0]
ArgInt(arg, default) == IF arg.given THEN arg.value ELSE default

\* what the requests of a run are drawn from
AllInputs ==
    [ identities |-> {"10.0.0.1"},
      bodies |-> Bodies,
      stores |-> {<<>>, SmallStore, WideStore},
      outcomes |-> UpstreamOutcomes,
      read_stores |-> {<<>>, SmallStore, MkStore(BigStoreSize)},
      pages |-> {NoArg, Arg(0), Arg(1), Arg(2), Arg(3), Arg(99)},
      per_pages |-> {NoArg, Arg(0 - 1), Arg(0), Arg(1), Arg(2), Arg(50), Arg(100),
                     Arg(101), Arg(250)},
      error_texts |-> ErrorTexts ]

FewInputs ==
    [ identities |-> Identities,
      bodies |-> {"malformed", "q_empty", "q_hi"},
      stores |-> {SmallStore},
      outcomes |-> { [kind |-> "timeout", content |-> ""],
                     [kind |-> "http_error", content |-> ""],
                     [kind |-> "no_choices", content |-> ""],
                     [kind |-> "completion", content |-> "Superposition is ..."] },
      read_stores |-> {SmallStore},
      pages |-> {Arg(2)},
      per_pages |-> {Arg(2)},
      error_texts |-> {"unable to open database file"} ]

\* the threaded run: one client, so that its requests meet in one window
ThreadedInputs ==
    [ identities |-> {"10.0.0.1"},
      bodies |-> {"q_empty", "q_hi"},
      stores |-> {SmallStore},
      outcomes |-> { [kind |-> "timeout", content |-> ""],
                     [kind |-> "completion", content |-> "Superposition is ..."] },
      read_stores |-> {SmallStore},
      pages |-> {NoArg},
      per_pages |-> {Arg(2)},
      error_texts |-> {"unable to open database file"} ]


(* ------------------------------- state ---------------------------------- *)
\* The simulations table lives in the database file and is written only by
\* the seeding command; a request reads it as it is when it asks.
VARIABLES
    now,                \* time.time()
    ticks,              \* clock advances so far
    received,           \* POST /api/ask requests received so far
    request_timestamps, \* the module-level dict: client_ip -> list of timestamps
    admitted_log,       \* history: per identity, the timestamps of admitted requests
    thread              \* per worker thread: the request it handles and its locals

vars == <<now, ticks, received, request_timestamps, admitted_log, thread>>

NoSummary == [text |-> "", lines |-> <<>>]

\* a worker without a request.  body, rows, db_error, page, per_page, outcome,
\* upstream_calls and admitted record what the request met, for the properties.
Idle ==
    [pc |-> "idle", endpoint |-> "", client_ip |-> "", current_time |-> 0,
     kept |-> <<>>, body |-> "", user_question |-> <<>>, data_summary |-> NoSummary,
     rows |-> <<>>, db_error |-> FALSE, page |-> NoArg, per_page |-> NoArg,
     outcome |-> NoOutcome, upstream_calls |-> 0, admitted |-> FALSE,
     resp |-> NoResponse]

Free(t) == thread[t].pc = "idle"

\* request_timestamps[client_ip], [] for an identity without an entry
Window(ip) == IF ip \in DOMAIN request_timestamps THEN request_timestamps[ip] ELSE <<>>

\* SetWindow on one list shared by all clients
SetWindowShared(ip, list) == [i \in Identities |-> list]

SetWindow(ip, list) ==
    [i \in (DOMAIN request_timestamps) \cup {ip} |->
        IF i = ip THEN list ELSE request_timestamps[i]]

\* Recent with the comparison written <=: a timestamp exactly
\* window_seconds old is kept
RecentInclusive(ts, current_time) == current_time - ts <= window_seconds

\* the filter of the comprehension: current_time - ts < window_seconds
Recent(ts, current_time) == current_time - ts < window_seconds

\* [ts for ts in list if current_time - ts < window_seconds]
Cleaned(list, current_time) ==
    LET Keep(ts) == Recent(ts, current_time) IN SelectSeq(list, Keep)

\* len(request_timestamps[client_ip]) >= max_requests
OverLimit(list) == Len(list) >= max_requests

\* the handler returns: its locals go, the response stays
Finish(t, response) ==
    [thread EXCEPT ![t].pc = "done", ![t].resp = response, ![t].kept = <<>>,
                   ![t].user_question = <<>>, ![t].data_summary = NoSummary,
                   ![t].rows = <<>>, ![t].db_error = FALSE]

(* --------------------- rate_limit.decorated_function -------------------- *)
\* lines 43-44: a POST /api/ask arrives at a free worker; the decorator reads
\* request.remote_addr and time.time()
RateLimitEnter(t, ip, cap) ==
    /\ Free(t)
    /\ received < cap
    /\ received' = received + 1
    /\ thread' = [thread EXCEPT ![t] =
            [Idle EXCEPT !.pc = "clean", !.endpoint = "ask", !.client_ip = ip,
                         !.current_time = now]]
    /\ UNCHANGED <<now, ticks, request_timestamps, admitted_log>>

\* lines 47-51: the list comprehension is evaluated over the list the dict
\* holds now (an unseen identity gets [], line 53)
CleanOldTimestamps(t) ==
    /\ thread[t].pc = "clean"
    /\ thread' = [thread EXCEPT
            ![t].pc = "store",
            ![t].kept = Cleaned(Window(thread[t].client_ip), thread[t].current_time)]
    /\ UNCHANGED <<now, ticks, received, request_timestamps, admitted_log>>

\* lines 48/53: the result is stored under request_timestamps[client_ip]
StoreCleaned(t) ==
    /\ thread[t].pc = "store"
    /\ request_timestamps' = SetWindow(thread[t].client_ip, thread[t].kept)
    /\ thread' = [thread EXCEPT ![t].pc = "check", ![t].kept = <<>>]
    /\ UNCHANGED <<now, ticks, received, admitted_log>>

\* CheckRateLimit with the append placed before the check: an attempt that is
\* turned away is recorded too
CheckRateLimitRecording(t) ==
    /\ thread[t].pc = "check"
    /\ thread' = IF OverLimit(Window(thread[t].client_ip))
                 THEN Finish(t, ErrorResponse(RateLimitMessage, 429))
                 ELSE [thread EXCEPT ![t].pc = "add"]
    /\ request_timestamps' =
            IF OverLimit(Window(thread[t].client_ip))
            THEN SetWindow(thread[t].client_ip,
                           Append(Window(thread[t].client_ip), thread[t].current_time))
            ELSE request_timestamps
    /\ UNCHANGED <<now, ticks, received, admitted_log>>

\* lines 56-57: over the limit, answer 429 and never call the handler
CheckRateLimit(t) ==
    /\ thread[t].pc = "check"
    /\ thread' = IF OverLimit(Window(thread[t].client_ip))
                 THEN Finish(t, ErrorResponse(RateLimitMessage, 429))
                 ELSE [thread EXCEPT ![t].pc = "add"]
    /\ UNCHANGED <<now, ticks, received, request_timestamps, admitted_log>>

\* line 60: request_timestamps[client_ip].append(current_time), then line 62
\* enters the handler
AddCurrentRequest(t) ==
    /\ thread[t].pc = "add"
    /\ request_timestamps' =
            SetWindow(thread[t].client_ip,
                      Append(Window(thread[t].client_ip), thread[t].current_time))
    /\ admitted_log' = [admitted_log EXCEPT ![thread[t].client_ip] =
                            Append(@, thread[t].current_time)]
    /\ thread' = [thread EXCEPT ![t].pc = "validate", ![t].admitted = TRUE]
    /\ UNCHANGED <<now, ticks, received>>

(* ---------------------------- ask_quantum_ai ---------------------------- *)
\* ValidateRequestData without the return on a rejected question: the
\* handler goes on with the text as sent
ValidateRequestDataNoReturn(body, build) ==
    IF body.kind \in {"object", "no_question"}
    THEN [done |-> FALSE, resp |-> NoResponse,
          question |-> IF body.question.t = "str" THEN body.question.v ELSE <<>>]
    ELSE [done |-> TRUE, resp |-> ErrorResponse(InvalidJsonMessage, 400), question |-> <<>>]

\* lines 159-168: what the handler does with the body; done = it has answered
ValidateRequestData(body, build) ==
    LET Fail(message, code) ==
            [done |-> TRUE, resp |-> ErrorResponse(message, code), question |-> <<>>]
        Checked(v) ==
            IF v.raised THEN Fail(UnexpectedMessage, 500)
            ELSE IF ~v.ok THEN Fail(v.reason, 400)
            ELSE [done |-> FALSE, resp |-> NoResponse, question |-> v.text]
    IN  CASE body.kind = "malformed" -> Fail(UnexpectedMessage, 500)
          [] body.kind = "not_json" ->
                IF build.flask_raises THEN Fail(UnexpectedMessage, 500)
                ELSE Fail(InvalidJsonMessage, 400)
          [] body.kind = "falsy" -> Fail(InvalidJsonMessage, 400)
          [] body.kind = "non_object" -> Fail(UnexpectedMessage, 500)
          [] body.kind = "no_question" -> Checked(validate_question(PyStr(<<>>)))
          [] body.kind = "object" -> Checked(validate_question(body.question))

\* lines 208-237: the response for what the upstream call came back with
UpstreamResponse(outcome, build) ==
    CASE outcome.kind = "timeout" -> ErrorResponse(TimeoutMessage, 504)
      [] outcome.kind \in {"connection_error", "http_error"} ->
            ErrorResponse(UnavailableMessage, 503)
      [] outcome.kind = "not_json" ->
            IF build.requests_wraps THEN ErrorResponse(UnavailableMessage, 503)
            ELSE ErrorResponse(BadAiResponseMessage, 500)
      [] outcome.kind \in {"no_choices", "empty_choices"} ->
            ErrorResponse(BadAiResponseMessage, 500)
      [] outcome.kind \in {"not_a_container", "no_message"} ->
            ErrorResponse(UnexpectedMessage, 500)
      [] outcome.kind = "completion" ->
            [NoResponse EXCEPT !.status = 200, !.keys = {"answer"},
                               !.answer = outcome.content]

\* ValidateRequestData on every body of the model
Validated ==
    [body \in Bodies, build \in Builds |-> ValidateRequestData(RequestBody[body], build)]

\* ValidateStep going straight to the upstream call, without the summary
ValidateStepSkipsSummary(t, body, build) ==
    /\ thread[t].pc = "validate"
    /\ LET v == Validated[body, build] IN
        thread' = IF v.done
                  THEN [Finish(t, v.resp) EXCEPT ![t].body = body]
                  ELSE [thread EXCEPT ![t].pc = "upstream", ![t].body = body,
                                      ![t].user_question = v.question]
    /\ UNCHANGED <<now, ticks, received, request_timestamps, admitted_log>>

\* lines 159-168 in a worker
ValidateStep(t, body, build) ==
    /\ thread[t].pc = "validate"
    /\ LET v == Validated[body, build] IN
        thread' = IF v.done
                  THEN [Finish(t, v.resp) EXCEPT ![t].body = body]
                  ELSE [thread EXCEPT ![t].pc = "summary", ![t].body = body,
                                      ![t].user_question = v.question]
    /\ UNCHANGED <<now, ticks, received, request_timestamps, admitted_log>>

\* line 171: the summary of the table as it is now (rows), or of a store that
\* raises sqlite3.Error (db_error)
SummaryStep(t, rows, db_error, tie) ==
    /\ thread[t].pc = "summary"
    /\ thread' = [thread EXCEPT
            ![t].pc = "upstream",
            ![t].rows = rows,
            ![t].db_error = db_error,
            ![t].data_summary = get_simulation_summary(rows, SummaryLimit, db_error, tie)]
    /\ UNCHANGED <<now, ticks, received, request_timestamps, admitted_log>>

\* UpstreamStep with one more attempt after a failed call
UpstreamStepRetry(t, outcome, build) ==
    /\ thread[t].pc = "upstream"
    /\ thread' = IF outcome.kind # "completion" /\ thread[t].upstream_calls = 0
                 THEN [thread EXCEPT ![t].outcome = outcome, ![t].upstream_calls = @ + 1]
                 ELSE [Finish(t, UpstreamResponse(outcome, build)) EXCEPT
                            ![t].outcome = outcome,
                            ![t].upstream_calls = @ + 1]
    /\ UNCHANGED <<now, ticks, received, request_timestamps, admitted_log>>

\* UpstreamStep giving the slot back when the call did not yield an answer
UpstreamStepRefund(t, outcome, build) ==
    /\ thread[t].pc = "upstream"
    /\ thread' = [Finish(t, UpstreamResponse(outcome, build)) EXCEPT
            ![t].outcome = outcome,
            ![t].upstream_calls = @ + 1]
    /\ request_timestamps' =
            IF outcome.kind = "completion" THEN request_timestamps
            ELSE SetWindow(thread[t].client_ip,
                           SubSeq(Window(thread[t].client_ip), 1,
                                  Len(Window(thread[t].client_ip)) - 1))
    /\ UNCHANGED <<now, ticks, received, admitted_log>>

\* lines 201-237: one requests.post, then the response
UpstreamStep(t, outcome, build) ==
    /\ thread[t].pc = "upstream"
    /\ thread' = [Finish(t, UpstreamResponse(outcome, build)) EXCEPT
            ![t].outcome = outcome,
            ![t].upstream_calls = @ + 1]
    /\ UNCHANGED <<now, ticks, received, request_timestamps, admitted_log>>

(* --------------------------- get_quantum_data --------------------------- *)
\* min(request.args.get('per_page', 50, type=int), 100)
PerPage(arg) ==
    LET asked == ArgInt(arg, DefaultPerPage)
    IN  IF asked < MaxPerPage THEN asked ELSE MaxPerPage

\* QuantumDataResponse with the offset taken as page * per_page
QuantumDataResponseOffByOne(rows, page_arg, per_page_arg, db_error) ==
    LET page == ArgInt(page_arg, 1)
        per_page == PerPage(per_page_arg)
        total == Len(rows)
    IN  IF db_error THEN ErrorResponse(DatabaseMessage, 500)
        ELSE IF per_page = 0 THEN ErrorResponse(UnexpectedMessage, 500)
        ELSE [NoResponse EXCEPT
                !.status = 200,
                !.keys = {"data", "pagination"},
                !.data = LimitOffset(OrderById(rows), per_page, page * per_page),
                !.pagination = [page |-> page, per_page |-> per_page, total |-> total,
                                pages |-> FloorDiv(total + per_page - 1, per_page)]]

\* lines 242-280
QuantumDataResponse(rows, page_arg, per_page_arg, db_error) ==
    LET page == ArgInt(page_arg, 1)
        per_page == PerPage(per_page_arg)
        offset == (page - 1) * per_page
        total == Len(rows)
    IN  IF db_error THEN ErrorResponse(DatabaseMessage, 500)
        ELSE IF per_page = 0 THEN ErrorResponse(UnexpectedMessage, 500)
        ELSE [NoResponse EXCEPT
                !.status = 200,
                !.keys = {"data", "pagination"},
                !.data = LimitOffset(OrderById(rows), per_page, offset),
                !.pagination = [page |-> page, per_page |-> per_page, total |-> total,
                                pages |-> FloorDiv(total + per_page - 1, per_page)]]

\* QuantumDataResponse on every input of the model
ReadResponse ==
    [rows \in AllInputs.read_stores, page_arg \in AllInputs.pages,
     per_page_arg \in AllInputs.per_pages, db_error \in BOOLEAN |->
        QuantumDataResponse(rows, page_arg, per_page_arg, db_error)]

\* GetQuantumData under @rate_limit: the read is counted in a client's window
GetQuantumDataLimited(t, rows, page_arg, per_page_arg, db_error) ==
    /\ Free(t)
    /\ \E ip \in Identities :
        LET list == Cleaned(Window(ip), now) IN
        IF OverLimit(list)
        THEN /\ request_timestamps' = SetWindow(ip, list)
             /\ thread' = [thread EXCEPT ![t] =
                    [Idle EXCEPT !.pc = "done", !.endpoint = "quantum-data",
                                 !.resp = ErrorResponse(RateLimitMessage, 429)]]
        ELSE /\ request_timestamps' = SetWindow(ip, Append(list, now))
             /\ thread' = [thread EXCEPT ![t] =
                    [Idle EXCEPT !.pc = "done", !.endpoint = "quantum-data",
                        !.rows = rows, !.db_error = db_error,
                        !.page = page_arg, !.per_page = per_page_arg,
                        !.resp = ReadResponse[rows, page_arg, per_page_arg, db_error]]]
    /\ UNCHANGED <<now, ticks, received, admitted_log>>

\* GET /api/quantum-data handled by a free worker
GetQuantumData(t, rows, page_arg, per_page_arg, db_error) ==
    /\ Free(t)
    /\ thread' = [thread EXCEPT ![t] =
            [Idle EXCEPT !.pc = "done", !.endpoint = "quantum-data",
                !.rows = rows, !.db_error = db_error,
                !.page = page_arg, !.per_page = per_page_arg,
                !.resp = ReadResponse[rows, page_arg, per_page_arg, db_error]]]
    /\ UNCHANGED <<now, ticks, received, request_timestamps, admitted_log>>

(* ------------------------------ health_check ---------------------------- *)
\* HealthResponse without the except clause: the exception leaves the view
\* and Flask's handler for 500 answers
HealthResponseUncaught(db_error, text, at) ==
    IF db_error
    THEN ErrorResponse("Internal server error", 500)
    ELSE [NoResponse EXCEPT !.status = 200, !.keys = {"status", "database", "timestamp"},
                            !.health = "healthy", !.timestamp = at]

\* lines 285-303: db_error is the round trip raising, text is str(e)
HealthResponse(db_error, text, at) ==
    IF db_error
    THEN [NoResponse EXCEPT !.status = 500, !.keys = {"status", "error", "timestamp"},
                            !.health = "unhealthy", !.error = text, !.timestamp = at]
    ELSE [NoResponse EXCEPT !.status = 200, !.keys = {"status", "database", "timestamp"},
                            !.health = "healthy", !.timestamp = at]

\* GET /api/health handled by a free worker
HealthCheck(t, db_error, text) ==
    /\ Free(t)
    /\ thread' = [thread EXCEPT ![t] =
            [Idle EXCEPT !.pc = "done", !.endpoint = "health", !.db_error = db_error,
                !.resp = HealthResponse(db_error, text, now)]]
    /\ UNCHANGED <<now, ticks, received, request_timestamps, admitted_log>>

\* the response is sent and the worker is free for the next request
Respond(t) ==
    /\ thread[t].pc = "done"
    /\ thread' = [thread EXCEPT ![t] = Idle]
    /\ UNCHANGED <<now, ticks, received, request_timestamps, admitted_log>>

(* -------------------------------- clock --------------------------------- *)
Tick(d) ==
    /\ ticks < MaxTicks
    /\ ticks' = ticks + 1
    /\ now' = now + d
    /\ UNCHANGED <<received, request_timestamps, admitted_log, thread>>

\* the clock of a run of the rate limiter alone
LimiterTick(d, cap) ==
    /\ ticks < cap
    /\ ticks' = ticks + 1
    /\ now' = now + d
    /\ UNCHANGED <<received, request_timestamps, admitted_log, thread>>

(* --------------------------- specifications ----------------------------- *)
Init ==
    /\ now = 0
    /\ ticks = 0
    /\ received = 0
    /\ request_timestamps = << >>
    /\ admitted_log = [ip \in Identities |-> <<>>]
    /\ thread = [t \in Threads |-> Idle]

\* the steps of a worker with a request
AskSteps(t, in) ==
    \/ CleanOldTimestamps(t)
    \/ StoreCleaned(t)
    \/ CheckRateLimit(t)
    \/ AddCurrentRequest(t)
    \/ \E body \in in.bodies, build \in Builds : ValidateStep(t, body, build)
    \/ \E rows \in in.stores, db_error \in BOOLEAN, tie \in {"asc", "desc"} :
            SummaryStep(t, rows, db_error, tie)
    \/ \E outcome \in in.outcomes, build \in Builds : UpstreamStep(t, outcome, build)
    \/ Respond(t)

\* a request arrives at a worker
Requests(t, in, cap) ==
    \/ \E ip \in in.identities : RateLimitEnter(t, ip, cap)
    \/ \E rows \in in.read_stores, p \in in.pages, pp \in in.per_pages,
          db_error \in BOOLEAN :
            GetQuantumData(t, rows, p, pp, db_error)
    \/ \E db_error \in BOOLEAN, text \in in.error_texts : HealthCheck(t, db_error, text)

\* the threaded server: every worker thread takes requests and steps on its own
Next ==
    \/ \E t \in Threads :
            Requests(t, ThreadedInputs, MaxThreadedRequests) \/ AskSteps(t, ThreadedInputs)
    \/ \E d \in TickSteps : Tick(d)

Spec == Init /\ [][Next]_vars

\* a single worker: one request is handled to its response before the next
SerialNext ==
    \/ Requests(MainThread, FewInputs, MaxRequests)
    \/ AskSteps(MainThread, FewInputs)
    \/ \E d \in TickSteps : Tick(d)

SerialSpec == Init /\ [][SerialNext]_vars

\* a single worker and one client, every input of the model
HandlerNext ==
    \/ Requests(MainThread, AllInputs, MaxHandlerRequests)
    \/ AskSteps(MainThread, AllInputs)
    \/ \E d \in TickSteps : Tick(d)

HandlerSpec == Init /\ [][HandlerNext]_vars

\* the rate limiter alone: every question is {"question": ""}, which the
\* handler answers 400 right after the rate check
LimiterSteps(t) ==
    \/ CleanOldTimestamps(t)
    \/ StoreCleaned(t)
    \/ CheckRateLimit(t)
    \/ AddCurrentRequest(t)
    \/ \E build \in Builds : ValidateStep(t, "q_empty", build)
    \/ Respond(t)

\* a single worker, both clients
LimiterNext ==
    \/ \E ip \in Identities : RateLimitEnter(MainThread, ip, MaxLimiterRequests)
    \/ LimiterSteps(MainThread)
    \/ \E d \in TickSteps : LimiterTick(d, MaxLimiterTicks)

LimiterSpec == Init /\ [][LimiterNext]_vars

\* the threaded server under a burst of one client, and then silence for more
\* than window_seconds
BurstNext ==
    \/ \E t \in Threads :
            RateLimitEnter(t, "10.0.0.1", MaxBurstRequests) \/ LimiterSteps(t)
    \/ LimiterTick(window_seconds + 1, MaxBurstTicks)

BurstSpec == Init /\ [][BurstNext]_vars

\* a single worker that keeps running: a request in hand is taken through its
\* next step (the rate check and the handler are straight-line code, the store
\* and the upstream call return or raise, the latter within its timeout)
LiveNext ==
    \/ Requests(MainThread, ThreadedInputs, MaxLiveRequests)
    \/ AskSteps(MainThread, ThreadedInputs)
    \/ \E d \in TickSteps : Tick(d)

LiveSpec == Init /\ [][LiveNext]_vars /\ WF_vars(AskSteps(MainThread, ThreadedInputs))

(* ------------------------------ properties ------------------------------ *)
\* the worker's request is a question that has passed the rate check
Passed(t) ==
    /\ thread[t].endpoint = "ask"
    /\ \/ thread[t].pc \in {"add", "validate", "summary", "upstream"}
       \/ thread[t].pc = "done" /\ thread[t].resp.status # 429

\* the worker's request is a question the rate check turned away
Rejected(t) ==
    /\ thread[t].endpoint = "ask"
    /\ thread[t].pc = "done"
    /\ thread[t].resp.status = 429

\* admissions of the worker's client before this request, for a single worker:
\* the log without the request's own entry
Earlier(t) ==
    LET log == admitted_log[thread[t].client_ip]
    IN  IF thread[t].admitted THEN SubSeq(log, 1, Len(log) - 1) ELSE log

\* how many of them are less than window_seconds old at the request's time
EarlierInWindow(t) ==
    Cardinality({k \in 1..Len(Earlier(t)) :
        thread[t].current_time - Earlier(t)[k] < window_seconds})

\* admissions of ip in the window of length window_seconds that starts at from
AdmittedFrom(ip, from) ==
    Cardinality({k \in 1..Len(admitted_log[ip]) :
        /\ admitted_log[ip][k] >= from
        /\ admitted_log[ip][k] - from < window_seconds})

\* C1: with requests handled one after the other, every window of
\* window_seconds holds at most max_requests admissions of a client; a
\* question is turned away with 429 exactly when max_requests earlier
\* admissions of its client are less than window_seconds old; and after at
\* most max_requests admissions, the first of them exactly window_seconds
\* ago, the question is admitted.
C1_SlidingWindowLimit ==
    /\ \A ip \in Identities : \A k \in 1..Len(admitted_log[ip]) :
            AdmittedFrom(ip, admitted_log[ip][k]) <= max_requests
    /\ \A t \in Threads :
        /\ Rejected(t) => EarlierInWindow(t) >= max_requests
        /\ Passed(t) => EarlierInWindow(t) < max_requests
        /\ ( /\ Passed(t) \/ Rejected(t)
             /\ Earlier(t) # <<>>
             /\ Len(Earlier(t)) <= max_requests
             /\ thread[t].current_time = Earlier(t)[1] + window_seconds )
           => Passed(t)

\* a client is admitted again exactly window_seconds after a full burst
C1_Witness ==
    \E t \in Threads :
        /\ Passed(t) /\ thread[t].admitted
        /\ Len(Earlier(t)) = max_requests
        /\ \A k \in 1..max_requests :
                Earlier(t)[k] + window_seconds = thread[t].current_time

\* how often ts occurs in list
Occurrences(list, ts) == Cardinality({k \in 1..Len(list) : list[k] = ts})

\* C2: under every interleaving of the workers' steps, no window of
\* window_seconds holds more than max_requests admissions of a client, and
\* the timestamp of every admitted request that is less than window_seconds
\* old is in the client's list.
C2_AtomicAdmitAndRecord ==
    \A ip \in Identities :
        /\ \A k \in 1..Len(admitted_log[ip]) :
                AdmittedFrom(ip, admitted_log[ip][k]) <= max_requests
        /\ \A k \in 1..Len(admitted_log[ip]) :
                now - admitted_log[ip][k] < window_seconds
                => Occurrences(Window(ip), admitted_log[ip][k])
                        >= Occurrences(admitted_log[ip], admitted_log[ip][k])

\* validate_question accepts the question of the body
Accepted(body) ==
    /\ body \in Bodies
    /\ RequestBody[body].kind \in {"object", "no_question"}
    /\ validate_question(IF RequestBody[body].kind = "object"
                         THEN RequestBody[body].question ELSE PyStr(<<>>)).ok

\* the bodies whose question validate_question accepts
AcceptedBodies == {body \in Bodies : Accepted(body)}

\* C3: a question answered 429 or 400 made no upstream call, and a worker is
\* at or past the upstream call only with a request the rate limiter admitted
\* and a question the validator accepted.
C3_FailFastBeforeUpstream ==
    \A t \in Threads :
        /\ ( /\ thread[t].endpoint = "ask"
             /\ thread[t].pc = "done"
             /\ thread[t].resp.status \in {429, 400} )
           => thread[t].upstream_calls = 0
        /\ (thread[t].pc = "upstream" \/ thread[t].upstream_calls > 0)
           => thread[t].admitted /\ Accepted(thread[t].body)

\* a sixth question inside the window is answered 429 without an upstream call
C3_Witness ==
    /\ thread[MainThread].pc = "done"
    /\ thread[MainThread].resp.status = 429
    /\ Len(admitted_log[thread[MainThread].client_ip]) >= max_requests
    /\ thread[MainThread].upstream_calls = 0

\* the worker has answered a request to endpoint
Answered(t, endpoint) == thread[t].pc = "done" /\ thread[t].endpoint = endpoint

\* upstream results that are a success status with a body of the wrong shape
MalformedKinds ==
    {"not_json", "no_choices", "empty_choices", "not_a_container", "no_message"}

\* C4: for an admitted, valid question the upstream outcome decides the
\* response: timeout 504, other transport or HTTP failure 503, a success body
\* of the wrong shape 500, a well-formed body 200 with its answer text.
C4_UpstreamOutcomeMapping ==
    \A t \in Threads :
        (Answered(t, "ask") /\ thread[t].upstream_calls > 0) =>
            LET kind == thread[t].outcome.kind
                resp == thread[t].resp
            IN  /\ kind = "timeout" => resp.status = 504
                /\ kind \in {"connection_error", "http_error"} => resp.status = 503
                /\ kind \in MalformedKinds => resp.status = 500
                /\ kind = "completion" =>
                        /\ resp.status = 200
                        /\ resp.keys = {"answer"}
                        /\ resp.answer = thread[t].outcome.content

\* the body is no valid JSON, or its question is one the validator rejects
BadClientInput(body) ==
    /\ body \in Bodies
    /\ \/ RequestBody[body].kind \in {"malformed", "not_json"}
       \/ RequestBody[body].kind \in {"object", "no_question"} /\ ~Accepted(body)

\* C5: an admitted question whose body is not valid JSON or whose question the
\* validator rejects is answered 400 with an error reason.
C5_BadInputIsClientError ==
    \A t \in Threads :
        (Answered(t, "ask") /\ thread[t].admitted /\ BadClientInput(thread[t].body)) =>
            /\ thread[t].resp.status = 400
            /\ thread[t].resp.keys = {"error"}
            /\ thread[t].resp.error # ""

\* C6 as stated: an empty table and a failing store both give the placeholder
\* sentence of the empty table, and the request goes on to the upstream call.
C6_SamePlaceholder ==
    \A t \in Threads :
        /\ (thread[t].pc = "upstream" /\ (thread[t].rows = <<>> \/ thread[t].db_error))
           => thread[t].data_summary = [text |-> NoDataSentence, lines |-> <<>>]
        /\ (Answered(t, "ask") /\ thread[t].admitted /\ thread[t].body \in AcceptedBodies)
           => thread[t].upstream_calls = 1

\* C6 (amended): the summary step never ends the request: an empty table
\* gives the sentence NoDataSentence, a failing store gives the other fixed
\* sentence UnableSentence, the text is never empty, and every admitted
\* request with an accepted question goes on to its upstream call.
C6_SummaryNeverAborts ==
    \A t \in Threads :
        /\ thread[t].pc = "upstream" =>
            /\ thread[t].data_summary.text # ""
            /\ thread[t].db_error
               => thread[t].data_summary = [text |-> UnableSentence, lines |-> <<>>]
            /\ (~thread[t].db_error /\ thread[t].rows = <<>>)
               => thread[t].data_summary = [text |-> NoDataSentence, lines |-> <<>>]
            /\ (~thread[t].db_error /\ thread[t].rows # <<>>)
               => thread[t].data_summary.text = SummaryHeader
        /\ thread[t].pc = "summary" => thread[t].body \in AcceptedBodies
        /\ (Answered(t, "ask") /\ thread[t].admitted /\ thread[t].body \in AcceptedBodies)
           => thread[t].upstream_calls = 1

\* the store failed under the summary and the worker stands at the upstream call
C6_Witness ==
    \E t \in Threads :
        /\ thread[t].pc = "upstream"
        /\ thread[t].db_error
        /\ thread[t].data_summary.text = UnableSentence

\* C7: whatever per_page and page are, the paginated read returns at most
\* 100 records and answers 500 only when the store fails.
C7_PerPageCap ==
    \A t \in Threads :
        Answered(t, "quantum-data") =>
            /\ Len(thread[t].resp.data) <= MaxPerPage
            /\ thread[t].resp.status = 500 => thread[t].db_error

\* the number of rows with an id at or below that of row
IdRank(rows, row) ==
    Cardinality({j \in 1..Len(rows) : rows[j].simulation_id <= row.simulation_id})

C9_OnlyQuestionsAreLimited ==
    [][ \A t \in Threads :
            ( /\ thread[t].pc = "idle"
              /\ thread'[t].endpoint \in {"quantum-data", "health"} )
            => /\ request_timestamps' = request_timestamps
               /\ admitted_log' = admitted_log
               /\ thread'[t].pc = "done"
               /\ thread'[t].resp.status \in {200, 500} ]_vars

\* a read is answered 200 while a client's window is full
C9_Witness ==
    \E t \in Threads, ip \in Identities :
        /\ Answered(t, "quantum-data")
        /\ thread[t].resp.status = 200
        /\ Len(Window(ip)) = max_requests

\* the messages the handlers write into an error response
FixedMessages ==
    { RateLimitMessage, InvalidJsonMessage, "No question provided", "Empty question",
      "Question too long (max 1000 characters)", "Invalid question content",
      BadAiResponseMessage, TimeoutMessage, UnavailableMessage, UnexpectedMessage,
      DatabaseMessage }

\* C10: the error message of every failure response, of any endpoint, is one
\* of the fixed messages.
C10_NoInternalDetail ==
    \A t \in Threads :
        (thread[t].pc = "done" /\ thread[t].resp.status >= 400) =>
            /\ "error" \in thread[t].resp.keys
            /\ thread[t].resp.error \in FixedMessages

\* C11: the probe always answers with a structured result: status healthy
\* with 200 when the store round trip succeeds, status unhealthy with 500
\* when it raises, each with the time of the answer as timestamp.
C11_ProbeNeverRaises ==
    \A t \in Threads :
        Answered(t, "health") =>
            LET resp == thread[t].resp IN
            /\ "status" \in resp.keys
            /\ "timestamp" \in resp.keys
            /\ resp.timestamp <= now
            /\ ~thread[t].db_error =>
                    /\ resp.status = 200
                    /\ resp.health = "healthy"
                    /\ resp.keys = {"status", "database", "timestamp"}
            /\ thread[t].db_error =>
                    /\ resp.status = 500
                    /\ resp.health = "unhealthy"
                    /\ resp.keys = {"status", "error", "timestamp"}

\* the store round trip raised and the probe answered unhealthy
C11_Witness ==
    \E t \in Threads :
        /\ Answered(t, "health")
        /\ thread[t].db_error
        /\ thread[t].resp.status = 500
        /\ thread[t].resp.health = "unhealthy"
        /\ "timestamp" \in thread[t].resp.keys

\* C12: a request makes at most one upstream call; the call is made by a
\* request the rate limiter admitted and whose question the validator
\* accepted, and it ends the request with its response, whatever the outcome,
\* so the calls of a run are never more than its admitted, validated requests.
C12_SingleUpstreamAttempt ==
    [][ \A t \in Threads :
            /\ thread'[t].upstream_calls \in {0, 1}
            /\ thread'[t].upstream_calls > thread[t].upstream_calls
               => /\ thread[t].pc = "upstream"
                  /\ thread[t].admitted
                  /\ thread[t].body \in AcceptedBodies
                  /\ thread'[t].pc = "done"
                  /\ thread'[t].resp = UpstreamResponse(thread'[t].outcome,
                        [flask_raises |-> TRUE, requests_wraps |-> TRUE])
                     \/ thread'[t].resp = UpstreamResponse(thread'[t].outcome,
                        [flask_raises |-> TRUE, requests_wraps |-> FALSE])
            /\ ( /\ thread[t].pc = "done"
                 /\ thread[t].upstream_calls = 1 )
               => thread'[t].pc \in {"done", "idle"} ]_vars

\* a call that timed out was the request's only call
C12_Witness ==
    \E t \in Threads :
        /\ Answered(t, "ask")
        /\ thread[t].outcome.kind = "timeout"
        /\ thread[t].resp.status = 504
        /\ thread[t].upstream_calls = 1

\* the stage of a question request: 1 rate check, 2 validation, 3 summary,
\* 4 upstream call, 5 answered
Stage(pc) ==
    CASE pc \in {"clean", "store", "check", "add"} -> 1
      [] pc = "validate" -> 2
      [] pc = "summary" -> 3
      [] pc = "upstream" -> 4
      [] pc = "done" -> 5

\* the order of the steps inside the rate check
RateCheckOrder == <<"clean", "store", "check", "add">>

\* what a question request can end with
TerminalStatuses == {200, 400, 429, 500, 503, 504}

\* C13: a question request goes through rate check, validation, summary and
\* upstream call in that order, each step taking it to the next stage or to
\* its answer, never back and never twice through a stage; its answer is one
\* response, a 200 with the answer or one error, which does not change; and
\* with a worker that keeps running every request received is answered, the
\* upstream call included.
C13_StagesInOrderAndTerminate ==
    /\ [][ \A t \in Threads :
            ( /\ thread[t].endpoint = "ask"
              /\ thread'[t] # thread[t] )
            => IF thread[t].pc = "done"
               THEN thread'[t] = Idle
               ELSE /\ thread'[t].endpoint = "ask"
                    /\ thread'[t].client_ip = thread[t].client_ip
                    /\ thread'[t].current_time = thread[t].current_time
                    /\ \/ Stage(thread'[t].pc) = 5
                       \/ /\ Stage(thread[t].pc) = 1
                          /\ \E k \in 1..3 : /\ thread[t].pc = RateCheckOrder[k]
                                             /\ thread'[t].pc = RateCheckOrder[k + 1]
                       \/ /\ thread[t].pc \in {"add", "validate", "summary"}
                          /\ Stage(thread'[t].pc) = Stage(thread[t].pc) + 1
                    /\ thread'[t].pc = "done" =>
                          /\ thread'[t].resp.status \in TerminalStatuses
                          /\ thread'[t].resp.status = 200
                                <=> thread'[t].resp.keys = {"answer"}
                          /\ thread'[t].resp.status # 200
                                => thread'[t].resp.keys = {"error"} ]_vars
    /\ (thread[MainThread].endpoint = "ask" /\ thread[MainThread].pc # "done")
            ~> (thread[MainThread].endpoint = "ask" /\ thread[MainThread].pc = "done")
    /\ (thread[MainThread].pc = "upstream") ~> (thread[MainThread].pc = "done")

\* a request whose upstream call timed out has its answer
C13_Witness ==
    \E t \in Threads :
        /\ Answered(t, "ask")
        /\ thread[t].admitted
        /\ thread[t].upstream_calls = 1
        /\ thread[t].outcome.kind = "timeout"
        /\ thread[t].resp.status = 504
        /\ received > 1

\* the timestamps of list that are less than window_seconds old at time at
StillInWindow(list, at) ==
    LET Young(ts) == at - ts < window_seconds IN SelectSeq(list, Young)

\* C14: with requests handled one after the other, the step that turns an
\* attempt away with 429 leaves request_timestamps as it is, and after it the
\* client's list holds exactly the timestamps of its admitted requests that
\* are less than window_seconds old at the attempt's time: the attempt itself
\* is not in it, so the client is admitted again as soon as the oldest of
\* them is window_seconds old, however often it was turned away meanwhile.
C14_RejectedNotRecorded ==
    [][ \A t \in Threads :
            ( /\ thread[t].endpoint = "ask"
              /\ thread[t].pc # "done"
              /\ thread'[t].pc = "done"
              /\ thread'[t].resp.status = 429 )
            => /\ request_timestamps' = request_timestamps
               /\ admitted_log' = admitted_log
               /\ ~thread'[t].admitted
               /\ Window(thread[t].client_ip)
                    = StillInWindow(admitted_log[thread[t].client_ip],
                                    thread[t].current_time)
               /\ Len(Window(thread[t].client_ip)) = max_requests ]_vars

\* a client whose burst at time 0 filled the window, and who was turned away
\* once after that, is admitted at time window_seconds: seven attempts, six
\* of them admitted
C14_Witness ==
    \E t \in Threads :
        /\ Passed(t)
        /\ thread[t].admitted
        /\ thread[t].current_time = window_seconds
        /\ admitted_log[thread[t].client_ip] = Rep(0, max_requests) \o <<window_seconds>>
        /\ \A ip \in Identities \ {thread[t].client_ip} : admitted_log[ip] = <<>>
        /\ received = max_requests + 2

\* C15: in every state every timestamp in a client's list is at most
\* window_seconds old, and the list never holds more than max_requests
\* timestamps.
C15_WindowInvariant ==
    \A ip \in DOMAIN request_timestamps :
        /\ \A k \in 1..Len(request_timestamps[ip]) :
                now - request_timestamps[ip][k] <= window_seconds
        /\ Len(request_timestamps[ip]) <= max_requests

\* the bodies whose question is text or absent, and that text ("" when absent)
TextBodies ==
    {body \in Bodies :
        \/ RequestBody[body].kind = "no_question"
        \/ /\ RequestBody[body].kind = "object"
           /\ RequestBody[body].question.t \in {"str", "none"}}

RawText(body) ==
    IF RequestBody[body].question.t = "str" THEN RequestBody[body].question.v ELSE <<>>

\* how many whitespace characters raw starts with, and ends with
LeadingBlanks(raw) ==
    CHOOSE a \in 0..Len(raw) :
        /\ \A i \in 1..a : raw[i] \in Whitespace
        /\ a = Len(raw) \/ raw[a + 1] \notin Whitespace

TrailingBlanks(raw) ==
    CHOOSE b \in 0..Len(raw) :
        /\ \A i \in (Len(raw) - b + 1)..Len(raw) : raw[i] \in Whitespace
        /\ b = Len(raw) \/ raw[Len(raw) - b] \notin Whitespace

\* the verdict the stated steps give on raw, in their order: the reason of the
\* first step that fails, or no reason and the text between the blanks
StatedVerdict(raw) ==
    LET a == LeadingBlanks(raw)
        b == TrailingBlanks(raw)
        inner == [i \in 1..(Len(raw) - a - b) |-> raw[a + i]]
    IN  IF raw = <<>> THEN [reason |-> "No question provided", text |-> <<>>]
        ELSE IF a = Len(raw) THEN [reason |-> "Empty question", text |-> <<>>]
        ELSE IF Len(raw) - a - b > MAX_QUESTION_LENGTH
        THEN [reason |-> "Question too long (max 1000 characters)", text |-> <<>>]
        ELSE IF \E keyword \in suspicious_keywords : Contains(lower(inner), keyword)
        THEN [reason |-> "Invalid question content", text |-> <<>>]
        ELSE [reason |-> "", text |-> inner]

StatedVerdicts == [body \in TextBodies |-> StatedVerdict(RawText(body))]

\* C16: for a question that is text or absent, the handler goes on exactly
\* when no stated step fails, and then with exactly the trimmed text; when
\* it answers 400 the reason is that of the first stated step that fails:
\* absent or empty, empty after trimming, trimmed length above 1000,
\* denylisted substring in any letter case.
C16_ValidateOrder ==
    \A t \in Threads :
        ( /\ thread[t].endpoint = "ask"
          /\ thread[t].admitted
          /\ thread[t].body \in TextBodies )
        => LET stated == StatedVerdicts[thread[t].body] IN
           /\ thread[t].pc \in {"summary", "upstream"} =>
                /\ stated.reason = ""
                /\ thread[t].user_question = stated.text
                /\ Len(thread[t].user_question) \in 1..MAX_QUESTION_LENGTH
           /\ (thread[t].pc = "done" /\ thread[t].upstream_calls = 0) =>
                /\ stated.reason # ""
                /\ thread[t].resp.status = 400
                /\ thread[t].resp.error = stated.reason
           /\ (thread[t].pc = "done" /\ thread[t].upstream_calls = 1) =>
                stated.reason = ""

\* a text of 1002 characters, 1000 of them between the blanks, is accepted as
\* its 1000 inner characters
C16_Witness ==
    \E t \in Threads :
        /\ thread[t].pc = "summary"
        /\ thread[t].body = "q_padded_max"
        /\ Len(RawText("q_padded_max")) = MAX_QUESTION_LENGTH + 2
        /\ thread[t].user_question = Chars(MAX_QUESTION_LENGTH)

\* the records of rows with algorithm a, and the sum of their accuracies
RecordsOf(rows, a) == {i \in 1..Len(rows) : rows[i].algorithm = a}

AccuracySum(rows, a) ==
    SumOf([i \in 1..Len(rows) |-> rows[i].accuracy], RecordsOf(rows, a))

\* the mean accuracy of algorithm a is at least that of algorithm b
MeanAtLeast(rows, a, b) ==
    AccuracySum(rows, a) * Cardinality(RecordsOf(rows, b))
        >= AccuracySum(rows, b) * Cardinality(RecordsOf(rows, a))

\* C17: for a table with records that the store reads without error, the
\* summary has the header and one line per algorithm, SummaryLimit lines at
\* most and no algorithm twice; the lines are in non-increasing order of the
\* algorithm's mean accuracy, no algorithm left out has a higher mean than
\* one that is listed, and the run count of a line is the number of records
\* of its algorithm.
C17_SummaryLines ==
    \A t \in Threads :
        ( /\ thread[t].pc = "upstream"
          /\ ~thread[t].db_error
          /\ thread[t].rows # <<>> )
        => LET rows == thread[t].rows
               lines == thread[t].data_summary.lines
               algs == {rows[i].algorithm : i \in 1..Len(rows)}
               listed == {lines[k].algorithm : k \in 1..Len(lines)}
           IN  /\ thread[t].data_summary.text = SummaryHeader
               /\ Len(lines) = IF Cardinality(algs) < SummaryLimit
                               THEN Cardinality(algs) ELSE SummaryLimit
               /\ listed \subseteq algs
               /\ Cardinality(listed) = Len(lines)
               /\ \A k \in 1..Len(lines) :
                    lines[k].runs = Cardinality(RecordsOf(rows, lines[k].algorithm))
               /\ \A k \in 1..(Len(lines) - 1) :
                    MeanAtLeast(rows, lines[k].algorithm, lines[k + 1].algorithm)
               /\ \A a \in listed, b \in algs \ listed : MeanAtLeast(rows, a, b)

\* six algorithms in the table: five lines, the best mean first, the lowest
\* left out
C17_Witness ==
    \E t \in Threads :
        /\ thread[t].pc = "upstream"
        /\ ~thread[t].db_error
        /\ thread[t].rows = WideStore
        /\ Len(thread[t].data_summary.lines) = SummaryLimit
        /\ thread[t].data_summary.lines[1].algorithm = "QFT"
        /\ thread[t].data_summary.lines[1].runs = 2
        /\ \A k \in 1..SummaryLimit :
                thread[t].data_summary.lines[k].algorithm # OtherAlgorithm

\* C18: with requests handled one after the other, the step that answers an
\* admitted request, with 200, 400, 500, 503 or 504 alike, leaves
\* request_timestamps as it is, with the request's timestamp in the client's
\* list; and the rate check counts every admitted request of the client that
\* is less than window_seconds old, so that with max_requests of them,
\* whatever they were answered, the next attempt is answered 429.
C18_SlotConsumedWhateverOutcome ==
    [][ \A t \in Threads :
            /\ ( /\ thread[t].endpoint = "ask"
                 /\ thread[t].admitted
                 /\ thread[t].pc # "done"
                 /\ thread'[t].pc = "done" )
               => /\ thread'[t].resp.status \in {200, 400, 500, 503, 504}
                  /\ request_timestamps' = request_timestamps
                  /\ Window(thread[t].client_ip)
                        = StillInWindow(admitted_log[thread[t].client_ip],
                                        thread[t].current_time)
                  /\ \E k \in 1..Len(Window(thread[t].client_ip)) :
                        Window(thread[t].client_ip)[k] = thread[t].current_time
            /\ ( /\ thread[t].pc = "check"
                 /\ thread'[t].pc # "check" )
               => ( Len(StillInWindow(admitted_log[thread[t].client_ip],
                                      thread[t].current_time)) >= max_requests
                    <=> /\ thread'[t].pc = "done"
                        /\ thread'[t].resp.status = 429 ) ]_vars

\* a request whose upstream call timed out holds the last slot of its
\* client's window
C18_Witness ==
    \E t \in Threads :
        /\ Answered(t, "ask")
        /\ thread[t].admitted
        /\ thread[t].resp.status = 504
        /\ Len(Window(thread[t].client_ip)) = max_requests
        /\ Window(thread[t].client_ip)[max_requests] = thread[t].current_time

\* C19: a step changes the list and the admissions of a client only when it
\* is a step of a request of that client, so a request of one client, admitted
\* or turned away, leaves every other client's list as it is; and a request
\* is turned away exactly when max_requests admitted requests of its own
\* client are less than window_seconds old, whatever the other clients'
\* lists hold.
C19_WindowsIndependent ==
    [][ /\ \A ip \in Identities :
            (Window(ip)' # Window(ip) \/ admitted_log'[ip] # admitted_log[ip])
            => \E t \in Threads :
                    /\ thread[t].client_ip = ip
                    /\ thread[t].pc \in {"store", "add"}
                    /\ thread'[t].pc # thread[t].pc
        /\ \A t \in Threads :
            (thread[t].pc = "check" /\ thread'[t].pc # "check")
            => LET own == {k \in 1..Len(admitted_log[thread[t].client_ip]) :
                            thread[t].current_time
                                - admitted_log[thread[t].client_ip][k] < window_seconds}
               IN  IF Cardinality(own) >= max_requests
                   THEN thread'[t].resp.status = 429
                   ELSE thread'[t].pc = "add" ]_vars

\* one client has filled its window and been turned away; the other client's
\* first request is admitted
C19_Witness ==
    \E t \in Threads, other \in Identities :
        /\ other # thread[t].client_ip
        /\ Passed(t)
        /\ thread[t].admitted
        /\ Window(thread[t].client_ip) = <<thread[t].current_time>>
        /\ Len(Window(other)) = max_requests
        /\ \A k \in 1..max_requests :
                thread[t].current_time - Window(other)[k] < window_seconds
        /\ received = max_requests + 2

====
